---- MODULE Spec2Model ----
(***************************************************************************)
(* Verification model of two view components of the OpenMetadata UI:       *)
(*                                                                         *)
(*   ActivityFeedList      (ActivityFeed/ActivityFeedList/ActivityFeedList *)
(*                          .tsx): thread selection, side panel, Escape    *)
(*                          listener, reply region of the expanded thread. *)
(*   EntityVersionTimeLine (EntityVersionTimeLine/EntityVersionTimeLine    *)
(*                          .tsx): revision filter and "Major" badge.      *)
(*                                                                         *)
(* React state is modelled by one variable per useState cell, props by one *)
(* variable per prop the code reads.  An event handler together with the   *)
(* effects that the resulting render runs is one action.                   *)
(***************************************************************************)
EXTENDS Integers, Sequences, FiniteSets, TLC

VARIABLES
    \* ---- ActivityFeedList ----
    mounted,          \* the component instance is mounted
    feedList,         \* prop feedList: sequence of threads
    withSidePanel,    \* prop withSidePanel
    selectedThread,   \* useState<EntityThread>()   (NoThread = undefined)
    selctedThreadId,  \* useState<string>('')
    isPanelOpen,      \* useState<boolean>(false)
    listeners,        \* 'keydown' handlers registered on document
    escapeKeyHandler, \* the handler closure the mounted instance created
    lastEvent,        \* name of the handler that ran last
    \* ---- EntityVersionTimeLine ----
    versions,         \* prop versionList.versions: sequence of revisions
    listVisible,      \* useState(false)
    versionType,      \* useState<VersionType>('all')
    lastCallback      \* last owner callback invoked (versionHandler / onBack)

feedVars == <<mounted, feedList, withSidePanel, selectedThread, selctedThreadId,
              isPanelOpen, listeners, escapeKeyHandler, lastEvent>>
timelineVars == <<versions, listVisible, versionType, lastCallback>>
vars == <<mounted, feedList, withSidePanel, selectedThread, selctedThreadId,
          isPanelOpen, listeners, escapeKeyHandler, lastEvent,
          versions, listVisible, versionType, lastCallback>>

----------------------------------------------------------------------------
(* Bounds of the model.                                                    *)

\* largest postsCount of a thread
MaxPosts == 4
\* largest number of Post objects the data source loads into thread.posts
MaxLoaded == 1
\* cap on the number of handlers simultaneously registered on document
MaxListeners == 2

----------------------------------------------------------------------------
(* ActivityFeedList: data.                                                 *)

ThreadIds == {"t1", "t2"}

\* useState<EntityThread>() starts undefined; '' is no thread's id.
NoThread == [id |-> "", postsCount |-> 0, posts |-> 0]

\* the reply count above which "View all (N) replies" replaces the count text
ViewAllThreshold == 3

Min(a, b) == IF a < b THEN a ELSE b

\* A thread as the component reads it: id, postsCount and posts (the number
\* of Post objects in feed.posts, the latest replies the data source loaded).
Threads ==
    { [id |-> i, postsCount |-> n, posts |-> Min(n, MaxLoaded)] :
        i \in ThreadIds, n \in 0..MaxPosts }

\* Feed lists: thread ids are unique within a list.
FeedLists ==
    { <<>> } \cup { <<a>> : a \in Threads }
             \cup { <<p[1], p[2]>> : p \in { q \in Threads \X Threads : q[1].id # q[2].id } }

\* feedList.find((f) => f.id === id): first match, undefined when none.
RECURSIVE Find(_, _)
Find(list, id) ==
    IF list = <<>> THEN NoThread
    ELSE IF Head(list).id = id THEN Head(list)
    ELSE Find(Tail(list), id)

\* onThreadSelect without the `if (thread)` guard
OnThreadSelectUnguarded(list, id, current) == Find(list, id)

\* onThreadSelect (lines 190-195): the value selectedThread holds after the call.
OnThreadSelect(list, id, current) ==
    LET thread == Find(list, id)
    IN  IF thread # NoThread THEN thread ELSE current

\* FeedListBody with the threshold test written `replies >= 3`
FeedListBodyOffByOne(feed, selId) ==
    LET replies  == feed.postsCount
        expanded == (selId = feed.id)
    IN  [ isFooterVisible |-> (selId # feed.id),
          expanded        |-> expanded,
          viewAll         |-> expanded /\ replies >= 3,
          replyCount      |-> expanded /\ ~(replies >= 3) /\ replies > 0,
          replyCards      |-> IF expanded THEN feed.posts ELSE 0,
          editor          |-> expanded ]

\* FeedListBody (lines 97-164): what is rendered for one feed of the list.
FeedListBody(feed, selId) ==
    LET replies  == feed.postsCount
        expanded == (selId = feed.id)
    IN  [ isFooterVisible |-> (selId # feed.id),
          expanded        |-> expanded,
          viewAll         |-> expanded /\ replies > ViewAllThreshold,
          replyCount      |-> expanded /\ ~(replies > ViewAllThreshold) /\ replies > 0,
          replyCards      |-> IF expanded THEN feed.posts ELSE 0,
          editor          |-> expanded ]

\* the grouped sections are rendered (otherwise Onboarding), lines 229-266
ListRendered == mounted /\ Len(feedList) > 0

\* the side panel is rendered, line 253
PanelShown ==
    ListRendered /\ withSidePanel /\ selectedThread # NoThread /\ isPanelOpen

\* a closure created by a render is distinct from every registered handler
FreshHandler == CHOOSE h \in 1..MaxListeners : h \notin listeners

Event(op, arg) == [op |-> op, arg |-> arg]

----------------------------------------------------------------------------
(* ActivityFeedList: operations.                                           *)

\* Mount: the useState initialisers, then both effects of the first render:
\* useEffect[feedList] calls onThreadSelect('') and useEffect[] registers
\* the Escape handler.
Mount(fl, wsp) ==
    /\ ~mounted
    /\ Cardinality(listeners) < MaxListeners
    /\ mounted' = TRUE
    /\ feedList' = fl
    /\ withSidePanel' = wsp
    /\ selctedThreadId' = ""
    /\ isPanelOpen' = FALSE
    /\ selectedThread' = OnThreadSelect(fl, "", NoThread)
    /\ escapeKeyHandler' = FreshHandler
    /\ listeners' = listeners \cup {FreshHandler}
    /\ lastEvent' = Event("mount", "")
    /\ UNCHANGED timelineVars

\* Unmount whose effect cleanup removes nothing
UnmountKeepsListener ==
    /\ mounted
    /\ mounted' = FALSE
    /\ listeners' = listeners
    /\ escapeKeyHandler' = 0
    /\ feedList' = <<>>
    /\ withSidePanel' = FALSE
    /\ selectedThread' = NoThread
    /\ selctedThreadId' = ""
    /\ isPanelOpen' = FALSE
    /\ lastEvent' = [op |-> "unmount", arg |-> ""]
    /\ UNCHANGED timelineVars

\* Unmount: the cleanup of useEffect[] removes the handler it registered;
\* the instance's state and props are gone.
Unmount ==
    /\ mounted
    /\ mounted' = FALSE
    /\ listeners' = listeners \ {escapeKeyHandler}
    /\ escapeKeyHandler' = 0
    /\ feedList' = <<>>
    /\ withSidePanel' = FALSE
    /\ selectedThread' = NoThread
    /\ selctedThreadId' = ""
    /\ isPanelOpen' = FALSE
    /\ lastEvent' = Event("unmount", "")
    /\ UNCHANGED timelineVars

\* onThreadIdSelect(id), invoked by the card of a rendered feed with
\* threadId = feed.id (lines 121-122).  onThreadIdDeselect (lines 186-188)
\* is passed to FeedListBody, which never calls it, so it is no action.
ThreadIdSelect(id) ==
    /\ ListRendered
    /\ \E i \in 1..Len(feedList) : feedList[i].id = id
    /\ selctedThreadId' = id
    /\ lastEvent' = Event("onThreadIdSelect", id)
    /\ UNCHANGED <<mounted, feedList, withSidePanel, selectedThread, isPanelOpen,
                   listeners, escapeKeyHandler>>
    /\ UNCHANGED timelineVars

\* "View all" click that only calls onViewMore()
ViewAllClickOpensOnly ==
    /\ ListRendered
    /\ \E i \in 1..Len(feedList) : FeedListBody(feedList[i], selctedThreadId).viewAll
    /\ isPanelOpen' = TRUE
    /\ lastEvent' = Event("viewAll", selctedThreadId)
    /\ UNCHANGED <<mounted, feedList, withSidePanel, selectedThread, selctedThreadId,
                   listeners, escapeKeyHandler>>
    /\ UNCHANGED timelineVars

\* click on "View all (N) replies" (lines 130-133):
\* onThreadSelect(selctedThreadId); onViewMore()
ViewAllClick ==
    /\ ListRendered
    /\ \E i \in 1..Len(feedList) : FeedListBody(feedList[i], selctedThreadId).viewAll
    /\ selectedThread' = OnThreadSelect(feedList, selctedThreadId, selectedThread)
    /\ isPanelOpen' = TRUE
    /\ lastEvent' = Event("viewAll", selctedThreadId)
    /\ UNCHANGED <<mounted, feedList, withSidePanel, selctedThreadId,
                   listeners, escapeKeyHandler>>
    /\ UNCHANGED timelineVars

\* feedList change with no effect re-resolving the selected thread
FeedListChangeNoEffect(fl) ==
    /\ mounted
    /\ feedList' = fl
    /\ lastEvent' = Event("feedList", "")
    /\ UNCHANGED <<mounted, withSidePanel, selectedThread, selctedThreadId, isPanelOpen,
                   listeners, escapeKeyHandler>>
    /\ UNCHANGED timelineVars

\* the owner passes a new feedList; useEffect[feedList] (lines 210-212)
\* runs onThreadSelect(selctedThreadId) against the new list
FeedListChange(fl) ==
    /\ mounted
    /\ feedList' = fl
    /\ selectedThread' = OnThreadSelect(fl, selctedThreadId, selectedThread)
    /\ lastEvent' = Event("feedList", "")
    /\ UNCHANGED <<mounted, withSidePanel, selctedThreadId, isPanelOpen,
                   listeners, escapeKeyHandler>>
    /\ UNCHANGED timelineVars

\* onCancel that only closes the panel
OnCancelKeepsThread(op) ==
    /\ isPanelOpen' = FALSE
    /\ lastEvent' = Event(op, "")
    /\ UNCHANGED <<mounted, feedList, withSidePanel, selectedThread, selctedThreadId,
                   listeners, escapeKeyHandler>>
    /\ UNCHANGED timelineVars

\* onCancel (lines 201-204), as run by event op
OnCancel(op) ==
    /\ selectedThread' = NoThread
    /\ isPanelOpen' = FALSE
    /\ lastEvent' = Event(op, "")
    /\ UNCHANGED <<mounted, feedList, withSidePanel, selctedThreadId,
                   listeners, escapeKeyHandler>>
    /\ UNCHANGED timelineVars

\* the panel's cancel affordance (line 259)
PanelCancel ==
    /\ PanelShown
    /\ OnCancel("panelCancel")

\* a keydown event on document: every registered handler runs; the mounted
\* instance's handler calls onCancel for 'Escape' (lines 215-219), a handler
\* of an unmounted instance sets state of a dead instance, which does nothing
KeyDown(key) ==
    /\ listeners # {}
    /\ IF key = "Escape" /\ mounted /\ escapeKeyHandler \in listeners
       THEN OnCancel("escape")
       ELSE /\ lastEvent' = Event("key", "")
            /\ UNCHANGED <<mounted, feedList, withSidePanel, selectedThread,
                           selctedThreadId, isPanelOpen, listeners, escapeKeyHandler>>
            /\ UNCHANGED timelineVars

\* postFeed (lines 206-208): postFeedHandler?.(value, selctedThreadId)
PostFeed(op) ==
    /\ lastEvent' = Event(op, selctedThreadId)
    /\ UNCHANGED <<mounted, feedList, withSidePanel, selectedThread,
                   selctedThreadId, isPanelOpen, listeners, escapeKeyHandler>>
    /\ UNCHANGED timelineVars

\* save in the composer of the expanded thread (line 158)
PostFeedInline ==
    /\ ListRendered
    /\ \E i \in 1..Len(feedList) : FeedListBody(feedList[i], selctedThreadId).editor
    /\ PostFeed("postFeedInline")

\* save in the composer of the side panel (line 257)
PostFeedPanel ==
    /\ PanelShown
    /\ PostFeed("postFeedPanel")

Keys == {"Escape", "Enter"}

InitFeed ==
    /\ mounted = FALSE
    /\ feedList = <<>>
    /\ withSidePanel = FALSE
    /\ selectedThread = NoThread
    /\ selctedThreadId = ""
    /\ isPanelOpen = FALSE
    /\ listeners = {}
    /\ escapeKeyHandler = 0
    /\ lastEvent = Event("init", "")
    /\ versions = <<>>
    /\ listVisible = FALSE
    /\ versionType = "all"
    /\ lastCallback = [name |-> "none", arg |-> <<>>]

NextFeed ==
    \/ \E fl \in FeedLists, wsp \in BOOLEAN : Mount(fl, wsp)
    \/ Unmount
    \/ \E id \in ThreadIds : ThreadIdSelect(id)
    \/ ViewAllClick
    \/ \E fl \in FeedLists : FeedListChange(fl)
    \/ PanelCancel
    \/ \E key \in Keys : KeyDown(key)
    \/ PostFeedInline
    \/ PostFeedPanel

----------------------------------------------------------------------------
(* EntityVersionTimeLine: strings and numbers.                             *)
(* A JavaScript string is a sequence of one-character strings.  A number   *)
(* is an integer count of hundredths (1.96 is 196); NaN is the number NaN. *)

\* largest number of revisions in versionList.versions
MaxRevs == 2

NaN == -1

DigitChars == <<"0", "1", "2", "3", "4", "5", "6", "7", "8", "9">>
IsDigit(c) == \E d \in 1..10 : DigitChars[d] = c
DigitOf(c) == (CHOOSE d \in 1..10 : DigitChars[d] = c) - 1

\* String(undefined), what parseFloat sees for a missing property
Undefined == <<"u", "n", "d", "e", "f", "i", "n", "e", "d">>

\* length of the longest prefix of s made of digits
RECURSIVE DigitRun(_)
DigitRun(s) ==
    IF s = <<>> \/ ~IsDigit(Head(s)) THEN 0 ELSE 1 + DigitRun(Tail(s))

\* value of a sequence of digits
RECURSIVE DigitsValue(_)
DigitsValue(s) ==
    IF s = <<>> THEN 0 ELSE 10 * DigitsValue(SubSeq(s, 1, Len(s) - 1)) + DigitOf(s[Len(s)])

\* parseFloat: the longest numeric prefix "ddd[.dd]", NaN when there is none
ParseFloat(s) ==
    LET n      == DigitRun(s)
        rest   == SubSeq(s, n + 1, Len(s))
        f      == IF rest # <<>> /\ Head(rest) = "." THEN DigitRun(Tail(rest)) ELSE 0
        frac   == IF f = 0 THEN <<>> ELSE SubSeq(rest, 2, 1 + f)
        tenths == IF f >= 1 THEN DigitOf(frac[1]) ELSE 0
        hundr  == IF f >= 2 THEN DigitOf(frac[2]) ELSE 0
    IN  IF n = 0 THEN NaN
        ELSE 100 * DigitsValue(SubSeq(s, 1, n)) + 10 * tenths + hundr

\* decimal digits of a natural number
RECURSIVE IntToString(_)
IntToString(n) ==
    IF n < 10 THEN <<DigitChars[n + 1]>>
    ELSE IntToString(n \div 10) \o <<DigitChars[(n % 10) + 1]>>

\* Number.prototype.toFixed(1): "NaN" for NaN, else the nearest tenth
ToFixed1(x) ==
    IF x = NaN THEN <<"N", "a", "N">>
    ELSE LET t == (x + 5) \div 10
         IN  IntToString(t \div 10) \o <<".">> \o <<DigitChars[(t % 10) + 1]>>

\* s.split('.')[0]
RECURSIVE BeforeDot(_)
BeforeDot(s) ==
    IF s = <<>> \/ Head(s) = "." THEN <<>> ELSE <<Head(s)>> \o BeforeDot(Tail(s))

\* isMajorVersion(version1, version2) of utils/EntityVersionUtils: both
\* rounded to one decimal place and formatted, true iff the parts before
\* the decimal point differ
IsMajorVersion(version1, version2) ==
    LET v1 == ToFixed1(ParseFloat(version1))
        v2 == ToFixed1(ParseFloat(version2))
    IN  BeforeDot(v1) # BeforeDot(v2)

----------------------------------------------------------------------------
(* EntityVersionTimeLine: data and rendering.                              *)

VersionTypes == {"all", "major", "minor"}

\* version values: 0.1, 0.96 (formats as "1.0") and 2.0
VersionValues  == { <<"0", ".", "1">>, <<"0", ".", "9", "6">>, <<"2", ".", "0">> }
\* previousVersion values: missing, 0.94 (formats as "0.9") and 1.1
PreviousValues == { Undefined, <<"0", ".", "9", "4">>, <<"1", ".", "1">> }

\* JSON.parse(v): the fields of a revision the component reads
Revisions ==
    { [version |-> v, previousVersion |-> p] : v \in VersionValues, p \in PreviousValues }

RevisionLists == UNION { [1..n -> Revisions] : n \in 0..MaxRevs }

\* first argument with "0.0" substituted for a missing previousVersion
PreviousArgWithFallback(currV) ==
    IF currV.previousVersion = Undefined THEN <<"0", ".", "0">>
    ELSE ToFixed1(ParseFloat(currV.previousVersion))

\* first argument of the isMajorVersion calls (lines 39-41, 52-54, 73-75)
PreviousArg(currV) == ToFixed1(ParseFloat(currV.previousVersion))

\* second argument of the isMajorVersion calls (lines 42, 55, 76)
VersionArg(currV) == ToFixed1(ParseFloat(currV.version))

\* the filter predicate of case 'major' (lines 35-44)
MajorFilter(currV) == IsMajorVersion(PreviousArg(currV), VersionArg(currV))

\* the 'minor' predicate with the negation dropped
MinorFilterNotNegated(currV) == IsMajorVersion(PreviousArg(currV), VersionArg(currV))

\* the filter predicate of case 'minor' (lines 48-57)
MinorFilter(currV) == ~IsMajorVersion(PreviousArg(currV), VersionArg(currV))

\* Array.prototype.filter with the predicate of the given case
RECURSIVE Filter(_, _)
Filter(list, vt) ==
    IF list = <<>> THEN <<>>
    ELSE LET keep == IF vt = "major" THEN MajorFilter(Head(list))
                                     ELSE MinorFilter(Head(list))
         IN  (IF keep THEN <<Head(list)>> ELSE <<>>) \o Filter(Tail(list), vt)

\* the switch of getVersionList (lines 33-65)
VersionTypeList(list, vt) ==
    CASE vt = "major" -> Filter(list, "major")
      [] vt = "minor" -> Filter(list, "minor")
      [] OTHER        -> list

\* majorVersionChecks without the test of the active filter
MajorVersionChecksAnyFilter(currV, vt) ==
    IsMajorVersion(PreviousArg(currV), VersionArg(currV))

\* majorVersionChecks (lines 70-79)
MajorVersionChecks(currV, vt) ==
    IsMajorVersion(PreviousArg(currV), VersionArg(currV)) /\ vt = "all"

\* one rendered row (lines 81-131): the label, the badge, the click value
VersionRow(currV, vt) ==
    [ currV   |-> currV,
      label   |-> <<"v">> \o ToFixed1(ParseFloat(currV.version)),
      badge   |-> MajorVersionChecks(currV, vt),
      onClick |-> currV.version ]

\* getVersionList (lines 29-138): the rows, or the placeholder when none
GetVersionList(list, vt) ==
    LET versionTypeList == VersionTypeList(list, vt)
    IN  [ rows        |-> [i \in 1..Len(versionTypeList) |-> VersionRow(versionTypeList[i], vt)],
          placeholder |-> (Len(versionTypeList) = 0) ]

Callback(name, arg) == [name |-> name, arg |-> arg]

----------------------------------------------------------------------------
(* EntityVersionTimeLine: operations.                                      *)

\* click on the filter button (line 161)
ToggleList ==
    /\ listVisible' = ~listVisible
    /\ UNCHANGED <<versions, versionType, lastCallback>>
    /\ UNCHANGED feedVars

\* handleVersionTypeSelection (lines 140-148); "" is no value
HandleVersionTypeSelection(value) ==
    /\ listVisible
    /\ versionType' = IF value # "" THEN value ELSE versionType
    /\ listVisible' = FALSE
    /\ UNCHANGED <<versions, lastCallback>>
    /\ UNCHANGED feedVars

\* click on a rendered row (line 92): versionHandler(toString(currV.version))
RowClick(i) ==
    /\ i \in 1..Len(GetVersionList(versions, versionType).rows)
    /\ lastCallback' =
         Callback("versionHandler", GetVersionList(versions, versionType).rows[i].onClick)
    /\ UNCHANGED <<versions, listVisible, versionType>>
    /\ UNCHANGED feedVars

\* click on the close affordance (line 174): onBack()
Back ==
    /\ lastCallback' = Callback("onBack", <<>>)
    /\ UNCHANGED <<versions, listVisible, versionType>>
    /\ UNCHANGED feedVars

InitTimeline ==
    /\ versions \in RevisionLists
    /\ listVisible = FALSE
    /\ versionType = "all"
    /\ lastCallback = Callback("none", <<>>)
    /\ mounted = FALSE
    /\ feedList = <<>>
    /\ withSidePanel = FALSE
    /\ selectedThread = NoThread
    /\ selctedThreadId = ""
    /\ isPanelOpen = FALSE
    /\ listeners = {}
    /\ escapeKeyHandler = 0
    /\ lastEvent = Event("init", "")

NextTimeline ==
    \/ ToggleList
    \/ \E value \in VersionTypes \cup {""} : HandleVersionTypeSelection(value)
    \/ \E i \in 1..MaxRevs : RowClick(i)
    \/ Back

SpecTimeline == InitTimeline /\ [][NextTimeline]_vars

----------------------------------------------------------------------------

SpecFeed == InitFeed /\ [][NextFeed]_vars

----------------------------------------------------------------------------
(* Properties of ActivityFeedList, checked under SpecFeed.                 *)

\* the feeds of the rendered list
RenderedFeeds == IF ListRendered THEN { feedList[i] : i \in 1..Len(feedList) } ELSE {}

\* a step in which the Escape handler of the mounted instance ran
EscapeStep == mounted /\ KeyDown("Escape")

\* a step in which the owner replaced feedList
FeedListStep == mounted /\ lastEvent'.op = "feedList"

\* C1 (as stated): Escape with the panel open clears selectedThread and
\* isPanelOpen; Escape with the panel closed changes none of selectedThread,
\* selctedThreadId, isPanelOpen.
C1_EscapeClosedIsNoOp ==
    [][EscapeStep =>
          IF isPanelOpen
          THEN selectedThread' = NoThread /\ isPanelOpen' = FALSE
          ELSE UNCHANGED <<selectedThread, selctedThreadId, isPanelOpen>>]_vars

\* C1 (amended): Escape always leaves selectedThread empty and isPanelOpen
\* false, whether or not the panel was open, and never changes
\* selctedThreadId; with the panel closed, isPanelOpen is therefore
\* unchanged but a retained selectedThread is discarded.
C1_EscapeClearsSelection ==
    [][EscapeStep =>
          /\ selectedThread' = NoThread
          /\ isPanelOpen' = FALSE
          /\ selctedThreadId' = selctedThreadId
          /\ (~isPanelOpen => isPanelOpen' = isPanelOpen)]_vars

\* Escape has run while a thread is expanded inline and present in the list
C1_Witness ==
    /\ lastEvent.op = "escape"
    /\ selectedThread = NoThread
    /\ ~isPanelOpen
    /\ selctedThreadId # ""
    /\ Find(feedList, selctedThreadId) # NoThread

\* C2: when feedList is replaced by a list holding a thread with the retained
\* selctedThreadId, selectedThread becomes that thread of the new list and
\* isPanelOpen is unchanged, so a displayed panel stays displayed.
C2_FeedListChangeResolvesSelection ==
    [][FeedListStep /\ (\E i \in 1..Len(feedList') : feedList'[i].id = selctedThreadId) =>
          /\ \E i \in 1..Len(feedList') : selectedThread' = feedList'[i]
          /\ selectedThread'.id = selctedThreadId
          /\ isPanelOpen' = isPanelOpen
          /\ (PanelShown => PanelShown')]_vars

\* a feedList change has refreshed the thread of a displayed panel
C2_Witness ==
    /\ lastEvent.op = "feedList"
    /\ PanelShown
    /\ selectedThread.id = selctedThreadId
    /\ \E i \in 1..Len(feedList) : feedList[i] = selectedThread

\* C3 (as stated): for the expanded thread, more than 3 replies render the
\* "View all" affordance and no reply list; 1 to 3 render count and list;
\* 0 renders neither, only the composer.
C3_ViewAllReplacesReplyList ==
    \A feed \in RenderedFeeds :
        LET r == FeedListBody(feed, selctedThreadId)
        IN  r.expanded =>
              /\ feed.postsCount > 3 => r.viewAll /\ r.replyCards = 0
              /\ feed.postsCount \in 1..3 => r.replyCount /\ r.replyCards > 0
              /\ feed.postsCount = 0 => ~r.replyCount /\ r.replyCards = 0 /\ r.editor

\* C3 (amended): for the expanded thread, the affordance is rendered iff
\* postsCount > 3 and the count text iff postsCount is 1 to 3; the reply
\* list always renders one card per post of feed.posts, and the composer is
\* always rendered.
C3_ReplyRegionByCount ==
    \A feed \in RenderedFeeds :
        LET r == FeedListBody(feed, selctedThreadId)
        IN  feed.id = selctedThreadId =>
              /\ r.viewAll <=> feed.postsCount > 3
              /\ r.replyCount <=> feed.postsCount \in 1..3
              /\ r.replyCards = feed.posts
              /\ r.editor

\* an expanded thread with more than 3 replies and loaded posts is rendered
C3_Witness ==
    \E feed \in RenderedFeeds :
        /\ feed.id = selctedThreadId
        /\ feed.postsCount > 3
        /\ feed.posts > 0
        /\ lastEvent.op = "onThreadIdSelect"

\* C7: the instance has exactly one keydown handler on document while it is
\* mounted, its own, and none while it is unmounted.
C7_OneListenerWhileMounted ==
    /\ Cardinality(listeners) = (IF mounted THEN 1 ELSE 0)
    /\ mounted => listeners = {escapeKeyHandler}

\* the instance has been unmounted and its handler is gone
C7_Witness == lastEvent.op = "unmount" /\ ~mounted /\ listeners = {}

\* C8: a feedList change whose new list holds no thread with the retained
\* selctedThreadId leaves selectedThread, selctedThreadId and isPanelOpen
\* unchanged.
C8_LookupMissIsNoOp ==
    [][FeedListStep /\ (\A i \in 1..Len(feedList') : feedList'[i].id # selctedThreadId) =>
          UNCHANGED <<selectedThread, selctedThreadId, isPanelOpen>>]_vars

\* after a feedList change the selected thread is retained though absent
C8_Witness ==
    /\ lastEvent.op = "feedList"
    /\ selectedThread # NoThread
    /\ selectedThread.id = selctedThreadId
    /\ \A i \in 1..Len(feedList) : feedList[i].id # selctedThreadId

\* C9: whenever the side panel is displayed, the thread it displays has the
\* id selctedThreadId, the id postFeed passes to postFeedHandler.
C9_PanelThreadIsSelectedId == PanelShown => selectedThread.id = selctedThreadId

\* C10: while mounted, isPanelOpen implies that selectedThread is set.
C10_OpenPanelHasThread == mounted /\ isPanelOpen => selectedThread # NoThread

\* the panel flag is set after "View all" and a later feedList change
C10_Witness ==
    /\ isPanelOpen
    /\ lastEvent.op = "feedList"
    /\ selectedThread # NoThread

----------------------------------------------------------------------------
(* Properties of EntityVersionTimeLine, checked under SpecTimeline.        *)

\* a revision is major: its integer version part differs from the previous one
RevIsMajor(currV) == IsMajorVersion(PreviousArg(currV), VersionArg(currV))

MajorIdx == { i \in 1..Len(versions) : RevIsMajor(versions[i]) }
MinorIdx == (1..Len(versions)) \ MajorIdx

\* the k-th smallest element of a set of indices
Kth(S, k) == CHOOSE i \in S : Cardinality({ j \in S : j <= i }) = k

\* list is exactly the revisions of versions at the indices S, in order
IsRestriction(list, S) ==
    /\ Len(list) = Cardinality(S)
    /\ \A k \in 1..Len(list) : list[k] = versions[Kth(S, k)]

\* C4: 'major' keeps exactly the major revisions, 'minor' exactly the others,
\* 'all' the whole list, each in the original order; 'major' and 'minor'
\* together hold every revision once.
C4_FilterPartitionsInOrder ==
    /\ IsRestriction(VersionTypeList(versions, "major"), MajorIdx)
    /\ IsRestriction(VersionTypeList(versions, "minor"), MinorIdx)
    /\ VersionTypeList(versions, "all") = versions
    /\ Len(VersionTypeList(versions, "major")) + Len(VersionTypeList(versions, "minor"))
         = Len(versions)

\* a filter is active on a list holding both a major and a minor revision
C4_Witness ==
    /\ versionType = "minor"
    /\ MajorIdx # {}
    /\ MinorIdx # {}
    /\ Len(GetVersionList(versions, versionType).rows) = Cardinality(MinorIdx)

InList(currV, list) == \E k \in 1..Len(list) : list[k] = currV

C6_BadgeOnlyUnderAll ==
    LET rows == GetVersionList(versions, versionType).rows
    IN  /\ \A k \in 1..Len(rows) :
              rows[k].badge <=> (versionType = "all" /\ RevIsMajor(rows[k].currV))
        /\ versionType \in {"major", "minor"} => \A k \in 1..Len(rows) : ~rows[k].badge

\* the 'major' filter was chosen and a major revision is rendered unbadged
C6_Witness ==
    LET rows == GetVersionList(versions, versionType).rows
    IN  /\ versionType = "major"
        /\ ~listVisible
        /\ \E k \in 1..Len(rows) : RevIsMajor(rows[k].currV) /\ ~rows[k].badge

====
